---- MODULE Spec2Model ----
(***************************************************************************)
(* Model of the code_review_assistant crate: the review-thread domain      *)
(* model (review_thread.rs), the response classifier and prompt builder    *)
(* and the CodeReviewPanel controller (review_panel.rs).                   *)
(*                                                                         *)
(* Text is a sequence of one-character strings; a literal the code pushes  *)
(* as a whole (an error message, a prompt header) is one element.          *)
(* Option<T> is a sequence of length 0 (None) or 1 (Some).                 *)
(***************************************************************************)
EXTENDS Integers, Sequences, FiniteSets, TLC

\* threads, selected_thread, pending_tasks: the fields of CodeReviewPanel
\* tasks: the spawned tasks that have not run to completion
\* next_thread_id, next_comment_id: the NEXT_ID counters of ThreadId, CommentId
\* next_task_id: the number of the next task cx.spawn_in creates
\* active_model: LanguageModelRegistry's active model
\* last_result: the result and stream items of the task that completed last
VARIABLES threads, selected_thread, pending_tasks, tasks,
          next_thread_id, next_comment_id, next_task_id,
          active_model, last_result

vars == <<threads, selected_thread, pending_tasks, tasks,
          next_thread_id, next_comment_id, next_task_id,
          active_model, last_result>>

(* ------------------------------ bounds --------------------------------- *)

\* thread ids issued over a run
MaxThreads == 2
\* comment ids issued over a run (all threads together)
MaxComments == 4
\* text chunks one stream delivers before it ends or fails
MaxChunks == 2
\* pieces a response text handed to the severity classifier is made of
MaxPieces == 2
\* lines of a response text handed to the suggestion extractor
MaxLines == 6

(* ------------------------------ options -------------------------------- *)

None == <<>>

Some(v) == <<v>>

(* ------------------------------- text ---------------------------------- *)

\* the values of a map or sequence
Range(s) == {s[i] : i \in DOMAIN s}

Whitespace == {" ", "\n"}

\* a test that takes only the empty text for blank
IsBlank_EmptyOnly(t) == t = <<>>

\* str::trim().is_empty()
IsBlank(t) == \A i \in DOMAIN t : t[i] \in Whitespace

RECURSIVE TrimStart(_)
TrimStart(t) ==
    IF t # <<>> /\ Head(t) \in Whitespace THEN TrimStart(Tail(t)) ELSE t

\* str::starts_with
StartsWith(t, p) == Len(t) >= Len(p) /\ SubSeq(t, 1, Len(p)) = p

\* str::contains
Contains(t, p) ==
    \E i \in 1..(Len(t) - Len(p) + 1) : SubSeq(t, i, i + Len(p) - 1) = p

LowerChar(c) ==
    CASE c = "B" -> "b"
      [] c = "W" -> "w"
      [] c = "C" -> "c"
      [] c = "E" -> "e"
      [] c = "S" -> "s"
      [] OTHER -> c

\* str::to_lowercase
to_lowercase(t) == [i \in DOMAIN t |-> LowerChar(t[i])]

RECURSIVE SplitLines(_, _)
\* the lines of t that follow the partial line cur
SplitLines(t, cur) ==
    IF t = <<>> THEN (IF cur = <<>> THEN <<>> ELSE <<cur>>)
    ELSE IF Head(t) = "\n" THEN <<cur>> \o SplitLines(Tail(t), <<>>)
    ELSE SplitLines(Tail(t), Append(cur, Head(t)))

\* str::lines(): split at "\n", a final line ending is optional
lines(t) == SplitLines(t, <<>>)

RECURSIVE join(_, _)
\* [&str]::join(sep)
join(ls, sep) ==
    IF ls = <<>> THEN <<>>
    ELSE IF Len(ls) = 1 THEN Head(ls)
    ELSE Head(ls) \o sep \o join(Tail(ls), sep)

RECURSIVE Concat(_)
\* the texts of a sequence, one after the other
Concat(ss) == IF ss = <<>> THEN <<>> ELSE Head(ss) \o Concat(Tail(ss))

RECURSIVE TrimEnd(_)
TrimEnd(t) ==
    IF t # <<>> /\ t[Len(t)] \in Whitespace
    THEN TrimEnd(SubSeq(t, 1, Len(t) - 1)) ELSE t

\* str::trim()
trim(t) == TrimEnd(TrimStart(t))

(* ------------------------- response classifier ------------------------- *)

ErrorTriggers ==
    { <<"e", "r", "r", "o", "r", ":">>,
      <<"b", "u", "g">>,
      <<"s", "e", "c", "u", "r", "i", "t", "y">>,
      <<"c", "r", "i", "t", "i", "c", "a", "l">>,
      <<"v", "u", "l", "n", "e", "r", "a", "b", "i", "l", "i", "t", "y">> }

WarningTriggers ==
    { <<"w", "a", "r", "n", "i", "n", "g", ":">>,
      <<"p", "o", "t", "e", "n", "t", "i", "a", "l", " ", "i", "s", "s", "u", "e">>,
      <<"s", "h", "o", "u", "l", "d", " ", "c", "o", "n", "s", "i", "d", "e", "r">>,
      <<"m", "i", "g", "h", "t", " ", "c", "a", "u", "s", "e">> }

SuggestionTriggers ==
    { <<"s", "u", "g", "g", "e", "s", "t", "i", "o", "n", ":">>,
      <<"c", "o", "u", "l", "d", " ", "b", "e", " ", "i", "m", "p", "r", "o", "v", "e", "d">>,
      <<"c", "o", "n", "s", "i", "d", "e", "r">>,
      <<"r", "e", "c", "o", "m", "m", "e", "n", "d">> }

\* detect_severity testing the Suggestion triggers before the Warning ones
detect_severity_SuggestionFirst(response) ==
    LET lower == to_lowercase(response) IN
    IF \E p \in ErrorTriggers : Contains(lower, p) THEN "Error"
    ELSE IF \E p \in SuggestionTriggers : Contains(lower, p) THEN "Suggestion"
    ELSE IF \E p \in WarningTriggers : Contains(lower, p) THEN "Warning"
    ELSE "Info"

\* first matching tier wins: Error, then Warning, then Suggestion, else Info
detect_severity(response) ==
    LET lower == to_lowercase(response) IN
    IF \E p \in ErrorTriggers : Contains(lower, p) THEN "Error"
    ELSE IF \E p \in WarningTriggers : Contains(lower, p) THEN "Warning"
    ELSE IF \E p \in SuggestionTriggers : Contains(lower, p) THEN "Suggestion"
    ELSE "Info"

\* the character U+0060, written as a name (the lexer rejects it in a string)
Backtick == "BACKTICK"

Fence == <<Backtick, Backtick, Backtick>>

RECURSIVE ExtractScan_LastBlock(_, _, _)
\* a loop with no break: a later block that closes with lines replaces the
\* lines found before
ExtractScan_LastBlock(ls, in_code_block, code_lines) ==
    IF ls = <<>> THEN [found_suggestion |-> FALSE, code_lines |-> code_lines]
    ELSE IF StartsWith(trim(Head(ls)), Fence)
         THEN IF in_code_block /\ code_lines # <<>>
              THEN LET later == ExtractScan_LastBlock(Tail(ls), FALSE, <<>>)
                   IN  IF later.found_suggestion THEN later
                       ELSE [found_suggestion |-> TRUE, code_lines |-> code_lines]
              ELSE ExtractScan_LastBlock(Tail(ls), ~in_code_block, <<>>)
    ELSE IF in_code_block
         THEN ExtractScan_LastBlock(Tail(ls), in_code_block,
                                    Append(code_lines, Head(ls)))
    ELSE ExtractScan_LastBlock(Tail(ls), in_code_block, code_lines)

RECURSIVE ExtractScan(_, _, _)
\* the loop of extract_code_suggestion over the remaining lines ls
ExtractScan(ls, in_code_block, code_lines) ==
    IF ls = <<>> THEN [found_suggestion |-> FALSE, code_lines |-> code_lines]
    ELSE IF StartsWith(trim(Head(ls)), Fence)
         THEN IF in_code_block /\ code_lines # <<>>
              THEN [found_suggestion |-> TRUE, code_lines |-> code_lines]
              ELSE ExtractScan(Tail(ls), ~in_code_block, <<>>)
    ELSE IF in_code_block
         THEN ExtractScan(Tail(ls), in_code_block, Append(code_lines, Head(ls)))
    ELSE ExtractScan(Tail(ls), in_code_block, code_lines)

\* extract_code_suggestion without the test of found_suggestion: the lines of
\* a block left open count as a suggestion
extract_code_suggestion_Unclosed(response) ==
    LET r == ExtractScan(lines(response), FALSE, <<>>) IN
    IF r.code_lines # <<>>
    THEN Some(join(r.code_lines, <<"\n">>))
    ELSE None

extract_code_suggestion(response) ==
    LET r == ExtractScan(lines(response), FALSE, <<>>) IN
    IF r.found_suggestion /\ r.code_lines # <<>>
    THEN Some(join(r.code_lines, <<"\n">>))
    ELSE None

(* ---------------------------- domain model ----------------------------- *)

ReviewComment_user(id, content) ==
    [id |-> id, role |-> "User", content |-> content,
     severity |-> None, suggested_code |-> None]

\* ReviewComment::ai that leaves the severity out when there is no finding
ReviewComment_ai_InfoAbsent(id, content, severity, suggested_code) ==
    [id |-> id, role |-> "Assistant", content |-> content,
     severity |-> IF severity = "Info" THEN None ELSE Some(severity),
     suggested_code |-> suggested_code]

ReviewComment_ai(id, content, severity, suggested_code) ==
    [id |-> id, role |-> "Assistant", content |-> content,
     severity |-> Some(severity), suggested_code |-> suggested_code]

\* ReviewThread::new with is_loading initialised to false
ReviewThread_new_NotLoading(id, comment_id, selection, initial_question) ==
    [id |-> id, selection |-> selection,
     comments |-> <<ReviewComment_user(comment_id, initial_question)>>,
     is_loading |-> FALSE, is_resolved |-> FALSE, is_collapsed |-> FALSE]

ReviewThread_new(id, comment_id, selection, initial_question) ==
    [id |-> id, selection |-> selection,
     comments |-> <<ReviewComment_user(comment_id, initial_question)>>,
     is_loading |-> TRUE, is_resolved |-> FALSE, is_collapsed |-> FALSE]

\* add_user_comment that opens a resolved thread again
add_user_comment_Reopens(thread, comment_id, content) ==
    [thread EXCEPT !.comments = Append(@, ReviewComment_user(comment_id, content)),
                   !.is_loading = TRUE,
                   !.is_resolved = FALSE]

\* add_user_comment that leaves is_loading as it finds it
add_user_comment_KeepsLoading(thread, comment_id, content) ==
    [thread EXCEPT !.comments = Append(@, ReviewComment_user(comment_id, content))]

\* add_user_comment that puts the new comment in front of the others
add_user_comment_Prepends(thread, comment_id, content) ==
    [thread EXCEPT !.comments = <<ReviewComment_user(comment_id, content)>> \o @,
                   !.is_loading = TRUE]

add_user_comment(thread, comment_id, content) ==
    [thread EXCEPT !.comments = Append(@, ReviewComment_user(comment_id, content)),
                   !.is_loading = TRUE]

\* add_ai_response that writes the reply over the thread's last comment
add_ai_response_Overwrites(thread, comment_id, content, severity, suggested_code) ==
    [thread EXCEPT
        !.comments = Append(SubSeq(@, 1, Len(@) - 1),
                            ReviewComment_ai(comment_id, content, severity,
                                             suggested_code)),
        !.is_loading = FALSE]

\* add_ai_response without the assignment to is_loading
add_ai_response_KeepsLoading(thread, comment_id, content, severity, suggested_code) ==
    [thread EXCEPT
        !.comments = Append(@, ReviewComment_ai(comment_id, content, severity,
                                                suggested_code))]

add_ai_response(thread, comment_id, content, severity, suggested_code) ==
    [thread EXCEPT
        !.comments = Append(@, ReviewComment_ai(comment_id, content, severity,
                                                suggested_code)),
        !.is_loading = FALSE]

set_loading(thread, loading) == [thread EXCEPT !.is_loading = loading]

resolve(thread) == [thread EXCEPT !.is_resolved = TRUE]

\* toggle_collapsed that only ever collapses
toggle_collapsed_Collapses(thread) == [thread EXCEPT !.is_collapsed = TRUE]

toggle_collapsed(thread) == [thread EXCEPT !.is_collapsed = ~@]

\* last_severity that scans the comments oldest first
last_severity_First(comments) ==
    LET with_severity == {i \in DOMAIN comments : comments[i].severity # None}
    IN  IF with_severity = {} THEN None
        ELSE comments[CHOOSE i \in with_severity :
                         \A j \in with_severity : i <= j].severity

RECURSIVE last_severity(_)
\* comments.iter().rev().find_map(|c| c.severity), over a comment sequence
last_severity(comments) ==
    IF comments = <<>> THEN None
    ELSE IF comments[Len(comments)].severity # None
         THEN comments[Len(comments)].severity
    ELSE last_severity(SubSeq(comments, 1, Len(comments) - 1))

has_suggestions(thread) ==
    \E i \in DOMAIN thread.comments : thread.comments[i].suggested_code # None

CodeSelection_line_count(selection) ==
    IF selection.line_range[2] >= selection.line_range[1]
    THEN selection.line_range[2] - selection.line_range[1] ELSE 0

(* --------------------------- prompt builder ---------------------------- *)

RECURSIVE UserQuestions_AllComments(_)
\* a loop without the test of the role: every comment goes into the prompt
UserQuestions_AllComments(comments) ==
    IF comments = <<>> THEN <<>>
    ELSE Head(comments).content \o <<"\n">>
         \o UserQuestions_AllComments(Tail(comments))

RECURSIVE UserQuestions(_)
\* the loop over thread.comments: each User comment's content and a newline
UserQuestions(comments) ==
    IF comments = <<>> THEN <<>>
    ELSE (IF Head(comments).role = "User"
          THEN Head(comments).content \o <<"\n">> ELSE <<>>)
         \o UserQuestions(Tail(comments))

build_review_prompt(thread, custom_prompt) ==
    (IF custom_prompt # None THEN custom_prompt[1] \o <<"\n\n">> ELSE <<>>)
    \o <<"You are an expert code reviewer. Analyze the following code and provide constructive feedback.\n\n">>
    \o <<"## Guidelines:\n">>
    \o <<"- Focus on code quality, potential bugs, and best practices\n">>
    \o <<"- Provide specific, actionable suggestions\n">>
    \o <<"- If you suggest code changes, provide the improved code\n">>
    \o <<"- Be concise but thorough\n">>
    \o <<"- Categorize your feedback by severity: Error (bugs/security issues), Warning (potential problems), Suggestion (improvements), or Info (explanations)\n\n">>
    \o (IF thread.selection.language # None
        THEN <<"## Language: ">> \o thread.selection.language[1] \o <<"\n\n">>
        ELSE <<>>)
    \o <<"## File: ">> \o thread.selection.file_path
    \o <<" (lines ", ToString(thread.selection.line_range[1]), "-",
         ToString(thread.selection.line_range[2] - 1), ")\n\n">>
    \o <<"## Context (surrounding code):\n">> \o Fence \o <<"\n">>
    \o thread.selection.context
    \o <<"\n">> \o Fence \o <<"\n\n">>
    \o <<"## Selected code to review:\n">> \o Fence \o <<"\n">>
    \o thread.selection.selected_text
    \o <<"\n">> \o Fence \o <<"\n\n">>
    \o <<"## User's question/request:\n">>
    \o UserQuestions(thread.comments)
    \o <<"\n## Your review:\n">>

(* ------------------------ editor and settings -------------------------- *)

\* a u32 is the pair <<high half, low half>> of its two 16-bit halves, so that
\* every value of the type, u32::MAX included, can be written
U32Half == 2^16

\* the u32 of a row number or small count
U32Of(n) == <<n \div U32Half, n % U32Half>>

U32Max == <<U32Half - 1, U32Half - 1>>

\* a value known to lie below 2^31, as a number
AsNat(v) == v[1] * U32Half + v[2]

\* a <= b on u32
U32Le(a, b) == a[1] < b[1] \/ (a[1] = b[1] /\ a[2] <= b[2])

\* a + b on u32 where the build does not check for overflow: the sum modulo 2^32
wrapping_add(a, b) ==
    LET lo == a[2] + b[2]
        hi == a[1] + b[1] + (lo \div U32Half)
    IN  <<hi % U32Half, lo % U32Half>>

\* a + b does not fit in a u32: a build with overflow checks panics here
AddOverflows(a, b) ==
    a[1] + b[1] + ((a[2] + b[2]) \div U32Half) >= U32Half

\* u32::saturating_sub
saturating_sub(a, b) ==
    IF U32Le(b, a)
    THEN LET borrow == IF a[2] < b[2] THEN 1 ELSE 0
         IN  <<a[1] - b[1] - borrow, a[2] - b[2] + borrow * U32Half>>
    ELSE <<0, 0>>

\* Ord::min on u32
Min(a, b) == IF U32Le(a, b) THEN a ELSE b

\* rows of the buffer the editor shows, row 0 first
Buffer == << <<"a">>, <<" ">>, <<"f">>, <<"g">> >>

\* what workspace.active_item and the editor's newest selection can be:
\* no editor, an empty selection, or a selection of whole rows
EditorStates ==
    { [active |-> FALSE, empty |-> TRUE, start_row |-> 0, end_row |-> 0,
       language |-> None, file_path |-> None],
      [active |-> TRUE, empty |-> TRUE, start_row |-> 2, end_row |-> 2,
       language |-> None, file_path |-> None],
      [active |-> TRUE, empty |-> FALSE, start_row |-> 1, end_row |-> 1,
       language |-> None, file_path |-> None],
      [active |-> TRUE, empty |-> FALSE, start_row |-> 2, end_row |-> 3,
       language |-> Some(<<"Rust">>), file_path |-> Some(<<"src/a.rs">>)] }

\* the values CodeReviewSettings::get_global can return
SettingsValues ==
    { [context_lines |-> U32Of(1), custom_prompt |-> Some(<<"Be brief.">>)] }

\* the text of the input editor when a review is requested
InputTexts == { <<>>, <<"w", "h", "y", "?">> }

\* the question texts add_followup is called with
FollowupQuestions == { <<"h", "o", "w", "?">> }

DefaultQuestion ==
    <<"Please review this code and provide feedback on potential improvements, issues, or best practices.">>

\* snapshot.text_for_range over whole rows first_row..last_row, no final line ending
RowsText(first_row, last_row) ==
    IF first_row > last_row THEN <<>>
    ELSE join(SubSeq(Buffer, first_row + 1, last_row + 1), <<"\n">>)

max_point_row == Len(Buffer) - 1

\* end_point.row + context_lines + 1 exceeds u32::MAX at one of its two additions
ContextOverflows(end_row, context_lines) ==
    \/ AddOverflows(U32Of(end_row), context_lines)
    \/ AddOverflows(wrapping_add(U32Of(end_row), context_lines), U32Of(1))

\* the surrounding rows review_current_selection captures as context, the
\* sum taken modulo 2^32 as a build without overflow checks takes it
ContextText(start_row, end_row, context_lines) ==
    LET context_start_row ==
            AsNat(saturating_sub(U32Of(start_row), context_lines))
        context_end_row ==
            AsNat(Min(wrapping_add(wrapping_add(U32Of(end_row), context_lines),
                                   U32Of(1)),
                      U32Of(max_point_row + 1)))
    IN  IF context_end_row <= max_point_row
        THEN (IF context_start_row < context_end_row
              THEN RowsText(context_start_row, context_end_row - 1) \o <<"\n">>
              ELSE <<>>)
        ELSE RowsText(context_start_row, max_point_row)

CaptureSelection(ed, settings) ==
    [file_path |-> IF ed.file_path # None THEN ed.file_path[1] ELSE <<"untitled">>,
     language |-> ed.language,
     selected_text |-> RowsText(ed.start_row, ed.end_row),
     context |-> ContextText(ed.start_row, ed.end_row, settings.context_lines),
     line_range |-> <<ed.start_row + 1, ed.end_row + 2>>,
     anchor_range |-> None]

(* ----------------------- model client (external) ---------------------- *)

\* the models LanguageModelRegistry can have active
Models == {"m1"}

\* text chunks a stream can deliver: in one order the two split the trigger
\* "bug", in the other they split the opening fence of a block
ChunkBlockBu ==
    <<Backtick, "\n", "x", "\n", Backtick, Backtick, Backtick, "\n", "B", "u">>

ChunkGTicks == <<"g", "\n", Backtick, Backtick>>

Chunks == {ChunkBlockBu, ChunkGTicks}

\* the descriptions of the errors a stream item can carry
StreamErrors == {"connection reset"}

(* --------------------------- CodeReviewPanel --------------------------- *)

ThreadIds(ths) == {ths[i].id : i \in DOMAIN ths}

HasThread(ths, thread_id) == thread_id \in ThreadIds(ths)

\* threads.iter().find(|t| t.id == thread_id): the first match
FindThread(ths, thread_id) ==
    ths[CHOOSE i \in DOMAIN ths :
            /\ ths[i].id = thread_id
            /\ \A j \in DOMAIN ths : ths[j].id = thread_id => i <= j]

\* threads.iter_mut().find(..) followed by an assignment through the reference
ReplaceThread(ths, thread_id, new_thread) ==
    [i \in DOMAIN ths |->
        IF ths[i].id = thread_id
           /\ \A j \in DOMAIN ths : ths[j].id = thread_id => i <= j
        THEN new_thread ELSE ths[i]]

\* HashMap::insert
MapInsert(m, k, v) == [x \in (DOMAIN m) \cup {k} |-> IF x = k THEN v ELSE m[x]]

\* HashMap::remove
MapRemove(m, k) == [x \in (DOMAIN m) \ {k} |-> m[x]]

EmptyMap == [x \in {} |-> 0]

NoModelMessage ==
    <<"No AI model configured. Please set up a language model in settings.">>

\* add_error_to_thread calling set_loading(true)
add_error_to_thread_KeepsLoading(ths, thread_id, comment_id, message) ==
    IF HasThread(ths, thread_id)
    THEN ReplaceThread(ths, thread_id,
            set_loading(add_ai_response(FindThread(ths, thread_id), comment_id,
                                        message, "Error", None),
                        TRUE))
    ELSE ths

\* the threads after add_error_to_thread; comment_id is the id CommentId::new
\* returns when the thread is found
\* add_error_to_thread that reports the error in two comments
add_error_to_thread_Twice(ths, thread_id, comment_id, message) ==
    IF HasThread(ths, thread_id)
    THEN LET once == add_ai_response(FindThread(ths, thread_id), comment_id,
                                     message, "Error", None)
         IN  ReplaceThread(ths, thread_id,
                set_loading(add_ai_response(once, comment_id, message,
                                            "Error", None),
                            FALSE))
    ELSE ths

add_error_to_thread(ths, thread_id, comment_id, message) ==
    IF HasThread(ths, thread_id)
    THEN ReplaceThread(ths, thread_id,
            set_loading(add_ai_response(FindThread(ths, thread_id), comment_id,
                                        message, "Error", None),
                        FALSE))
    ELSE ths

\* the task cx.spawn_in creates: it awaits stream_ai_response for the request
NewTask(thread, settings) ==
    [id |-> next_task_id,
     thread_id |-> thread.id,
     model |-> active_model[1],
     request |-> [messages |-> <<[role |-> "User",
                                 content |-> build_review_prompt(
                                     thread, settings.custom_prompt),
                                 cache |-> FALSE]>>,
                  tools |-> <<>>, stop |-> <<>>, temperature |-> Some("0.3")],
     question |-> thread.comments[Len(thread.comments)].id,
     phase |-> "starting",
     received |-> <<>>,
     full_response |-> <<>>]

\* the running tasks left when the Task handles in dropped are dropped: a
\* dispatched request is not cancelled, it runs to completion or failure
DropHandles(running, dropped) == running

\* the handle pending_tasks holds for thread_id, if any
HandleOf(m, thread_id) == IF thread_id \in DOMAIN m THEN {m[thread_id]} ELSE {}

\* request_ai_review without its first guard: for an id that is not in the
\* registry it still registers a handle and counts a task
request_ai_review_NoGuard(ths, thread_id, comment_id, settings) ==
    IF ~HasThread(ths, thread_id)
    THEN [threads |-> ths, tasks |-> tasks,
          pending_tasks |-> MapInsert(pending_tasks, thread_id, next_task_id),
          next_comment_id |-> comment_id, next_task_id |-> next_task_id + 1]
    ELSE IF active_model = None
    THEN [threads |-> add_error_to_thread(ths, thread_id, comment_id,
                                          NoModelMessage),
          tasks |-> tasks, pending_tasks |-> pending_tasks,
          next_comment_id |-> comment_id + 1, next_task_id |-> next_task_id]
    ELSE [threads |-> ths,
          tasks |-> DropHandles(tasks, HandleOf(pending_tasks, thread_id))
                    \cup {NewTask(FindThread(ths, thread_id), settings)},
          pending_tasks |-> MapInsert(pending_tasks, thread_id, next_task_id),
          next_comment_id |-> comment_id, next_task_id |-> next_task_id + 1]

\* request_ai_review on the thread list ths, with comment_id the next comment
\* id: the thread list, running tasks, pending map and counters it leaves
request_ai_review(ths, thread_id, comment_id, settings) ==
    IF ~HasThread(ths, thread_id)
    THEN [threads |-> ths, tasks |-> tasks, pending_tasks |-> pending_tasks,
          next_comment_id |-> comment_id, next_task_id |-> next_task_id]
    ELSE IF active_model = None
    THEN [threads |-> add_error_to_thread(ths, thread_id, comment_id,
                                          NoModelMessage),
          tasks |-> tasks, pending_tasks |-> pending_tasks,
          next_comment_id |-> comment_id + 1, next_task_id |-> next_task_id]
    ELSE [threads |-> ths,
          tasks |-> DropHandles(tasks, HandleOf(pending_tasks, thread_id))
                    \cup {NewTask(FindThread(ths, thread_id), settings)},
          pending_tasks |-> MapInsert(pending_tasks, thread_id, next_task_id),
          next_comment_id |-> comment_id, next_task_id |-> next_task_id + 1]

\* the Ok value stream_ai_response returns when the stream ends
StreamOk(full_response) ==
    [ok |-> TRUE, content |-> full_response,
     severity |-> detect_severity(full_response),
     suggestion |-> extract_code_suggestion(full_response)]

\* an Err value of stream_ai_response; err is the text its Display gives
StreamErr(err) == [ok |-> FALSE, err |-> err]

\* room for one more User comment, its reply and the reply of every running task
CommentRoom == next_comment_id + 1 + Cardinality(tasks) <= MaxComments

Init ==
    /\ threads = <<>>
    /\ selected_thread = None
    /\ pending_tasks = EmptyMap
    /\ tasks = {}
    /\ next_thread_id = 1
    /\ next_comment_id = 1
    /\ next_task_id = 1
    /\ active_model \in {None} \cup {Some(m) : m \in Models}
    /\ last_result = [task |-> 0, thread_id |-> 0, received |-> <<>>,
                      result |-> StreamErr(<<>>)]

\* review_current_selection returning early: no editor, an empty selection
\* or a selection of whitespace only
ReviewIgnored(ed) ==
    /\ \/ ~ed.active
       \/ ed.empty
       \/ IsBlank(RowsText(ed.start_row, ed.end_row))
    /\ UNCHANGED <<threads, selected_thread, pending_tasks, tasks,
                   next_thread_id, next_comment_id, next_task_id, active_model, last_result>>

\* review_current_selection creating a thread and requesting its review
ReviewSelection(ed, settings, input_text) ==
    /\ ed.active /\ ~ed.empty
    /\ ~IsBlank(RowsText(ed.start_row, ed.end_row))
    /\ next_thread_id <= MaxThreads
    /\ CommentRoom
    /\ \/ LET question == IF IsBlank(input_text) THEN DefaultQuestion ELSE input_text
              thread == ReviewThread_new(next_thread_id, next_comment_id,
                                         CaptureSelection(ed, settings), question)
              r == request_ai_review(Append(threads, thread), thread.id,
                                     next_comment_id + 1, settings)
          IN  /\ threads' = r.threads
              /\ selected_thread' = Some(thread.id)
              /\ tasks' = r.tasks
              /\ pending_tasks' = r.pending_tasks
              /\ next_thread_id' = next_thread_id + 1
              /\ next_comment_id' = r.next_comment_id
              /\ next_task_id' = r.next_task_id
       \/ \* a build with overflow checks panics at the sum, before the thread
          \* is built or any field of the panel is written
          /\ ContextOverflows(ed.end_row, settings.context_lines)
          /\ UNCHANGED <<threads, selected_thread, tasks, pending_tasks,
                         next_thread_id, next_comment_id, next_task_id>>
    /\ UNCHANGED <<active_model, last_result>>

review_current_selection(ed, settings, input_text) ==
    \/ ReviewIgnored(ed)
    \/ ReviewSelection(ed, settings, input_text)

add_followup(thread_id, question, settings) ==
    /\ HasThread(threads, thread_id) => CommentRoom
    /\ LET found == HasThread(threads, thread_id)
           ths == IF found
                  THEN ReplaceThread(threads, thread_id,
                          add_user_comment(FindThread(threads, thread_id),
                                           next_comment_id, question))
                  ELSE threads
           r == request_ai_review(ths, thread_id,
                                  IF found THEN next_comment_id + 1
                                  ELSE next_comment_id, settings)
       IN  /\ threads' = r.threads
           /\ tasks' = r.tasks
           /\ pending_tasks' = r.pending_tasks
           /\ next_comment_id' = r.next_comment_id
           /\ next_task_id' = r.next_task_id
    /\ UNCHANGED <<selected_thread, next_thread_id, active_model, last_result>>

\* clear_threads that also starts the two id counters again
clear_threads_ResetsCounters ==
    /\ threads' = <<>>
    /\ selected_thread' = None
    /\ pending_tasks' = EmptyMap
    /\ tasks' = DropHandles(tasks, Range(pending_tasks))
    /\ next_thread_id' = 1
    /\ next_comment_id' = 1
    /\ UNCHANGED <<next_task_id, active_model, last_result>>

clear_threads ==
    /\ threads' = <<>>
    /\ selected_thread' = None
    /\ pending_tasks' = EmptyMap
    /\ tasks' = DropHandles(tasks, Range(pending_tasks))
    /\ UNCHANGED <<next_thread_id, next_comment_id, next_task_id,
                   active_model, last_result>>

\* resolve_thread that takes the resolved thread out of the registry
resolve_thread_Removes(thread_id) ==
    /\ threads' = SelectSeq(threads, LAMBDA th : th.id # thread_id)
    /\ UNCHANGED <<selected_thread, pending_tasks, tasks, next_thread_id,
                   next_comment_id, next_task_id, active_model, last_result>>

resolve_thread(thread_id) ==
    /\ threads' = IF HasThread(threads, thread_id)
                  THEN ReplaceThread(threads, thread_id,
                                     resolve(FindThread(threads, thread_id)))
                  ELSE threads
    /\ UNCHANGED <<selected_thread, pending_tasks, tasks, next_thread_id,
                   next_comment_id, next_task_id, active_model, last_result>>

toggle_thread_collapsed(thread_id) ==
    /\ threads' = IF HasThread(threads, thread_id)
                  THEN ReplaceThread(threads, thread_id,
                          toggle_collapsed(FindThread(threads, thread_id)))
                  ELSE threads
    /\ UNCHANGED <<selected_thread, pending_tasks, tasks, next_thread_id,
                   next_comment_id, next_task_id, active_model, last_result>>

\* a registry whose change of model also reaches the requests in flight
SetActiveModel_Repoints(m) ==
    /\ m # active_model
    /\ active_model' = m
    /\ tasks' = {[t EXCEPT !.model = IF m = None THEN "none" ELSE m[1]] : t \in tasks}
    /\ UNCHANGED <<threads, selected_thread, pending_tasks,
                   next_thread_id, next_comment_id, next_task_id, last_result>>

\* the active model of the registry is changed or removed
SetActiveModel(m) ==
    /\ m # active_model
    /\ active_model' = m
    /\ UNCHANGED <<threads, selected_thread, pending_tasks, tasks,
                   next_thread_id, next_comment_id, next_task_id, last_result>>

(* ------------------- the spawned task, step by step -------------------- *)

\* the merge of a closure that drops the result of a task whose handle is no
\* longer the tracked one
MergeResult_TrackedOnly(t, result) ==
    IF HandleOf(pending_tasks, t.thread_id) # {t.id}
    THEN threads
    ELSE IF result.ok
    THEN IF HasThread(threads, t.thread_id)
         THEN ReplaceThread(threads, t.thread_id,
                 add_ai_response(FindThread(threads, t.thread_id),
                                 next_comment_id, result.content,
                                 result.severity, result.suggestion))
         ELSE threads
    ELSE add_error_to_thread(threads, t.thread_id, next_comment_id,
                             <<"Failed to get AI response: ">> \o result.err)

\* the merge of a closure that shows the partial response after the error
MergeResult_ShowsPartial(t, result) ==
    IF result.ok
    THEN IF HasThread(threads, t.thread_id)
         THEN ReplaceThread(threads, t.thread_id,
                 add_ai_response(FindThread(threads, t.thread_id),
                                 next_comment_id, result.content,
                                 result.severity, result.suggestion))
         ELSE threads
    ELSE add_error_to_thread(threads, t.thread_id, next_comment_id,
                             <<"Failed to get AI response: ">> \o result.err
                             \o t.full_response)

\* a merge that looks no thread up: the reply goes to the first thread
MergeResultIn_FirstThread(ths, comment_id, t, result) ==
    IF ths = <<>> THEN ths
    ELSE IF result.ok
    THEN [ths EXCEPT ![1] = add_ai_response(@, comment_id, result.content,
                                            result.severity, result.suggestion)]
    ELSE [ths EXCEPT ![1] = add_ai_response(@, comment_id,
                                <<"Failed to get AI response: ">> \o result.err,
                                "Error", None)]

\* the match on result in the closure passed to this.update, run on the thread
\* list ths with comment_id the id CommentId::new returns next
MergeResultIn(ths, comment_id, t, result) ==
    IF result.ok
    THEN IF HasThread(ths, t.thread_id)
         THEN ReplaceThread(ths, t.thread_id,
                 add_ai_response(FindThread(ths, t.thread_id),
                                 comment_id, result.content,
                                 result.severity, result.suggestion))
         ELSE ths
    ELSE add_error_to_thread(ths, t.thread_id, comment_id,
                             <<"Failed to get AI response: ">> \o result.err)

\* the threads after the closure passed to this.update has merged result
MergeResult(t, result) == MergeResultIn(threads, next_comment_id, t, result)

\* the completion of a closure that builds the comment, and so takes a comment
\* id, before it looks the thread up
Complete_AllocatesFirst(t, result) ==
    /\ threads' = MergeResult(t, result)
    /\ pending_tasks' = MapRemove(pending_tasks, t.thread_id)
    /\ tasks' = DropHandles(tasks \ {t}, HandleOf(pending_tasks, t.thread_id))
    /\ next_comment_id' = next_comment_id + 1
    /\ last_result' = [task |-> t.id, thread_id |-> t.thread_id,
                        received |-> t.received, result |-> result]
    /\ UNCHANGED <<selected_thread, next_thread_id, next_task_id, active_model>>

\* the completion of a closure that dispatches the request again when it failed
Complete_Retries(t, result) ==
    /\ threads' = MergeResult(t, result)
    /\ pending_tasks' = IF result.ok
                        THEN MapRemove(pending_tasks, t.thread_id)
                        ELSE MapInsert(pending_tasks, t.thread_id, next_task_id)
    /\ tasks' = IF result.ok
                THEN DropHandles(tasks \ {t}, HandleOf(pending_tasks, t.thread_id))
                ELSE (tasks \ {t}) \cup
                     {[t EXCEPT !.id = next_task_id, !.phase = "starting",
                                !.received = <<>>, !.full_response = <<>>]}
    /\ next_task_id' = IF result.ok THEN next_task_id ELSE next_task_id + 1
    /\ next_comment_id' = IF HasThread(threads, t.thread_id)
                          THEN next_comment_id + 1 ELSE next_comment_id
    /\ last_result' = [task |-> t.id, thread_id |-> t.thread_id,
                        received |-> t.received, result |-> result]
    /\ UNCHANGED <<selected_thread, next_thread_id, active_model>>

\* task t resumes with the result of stream_ai_response and runs this.update
Complete(t, result) ==
    /\ threads' = MergeResult(t, result)
    /\ pending_tasks' = MapRemove(pending_tasks, t.thread_id)
    /\ tasks' = DropHandles(tasks \ {t}, HandleOf(pending_tasks, t.thread_id))
    /\ next_comment_id' = IF HasThread(threads, t.thread_id)
                          THEN next_comment_id + 1 ELSE next_comment_id
    /\ last_result' = [task |-> t.id, thread_id |-> t.thread_id,
                        received |-> t.received, result |-> result]
    /\ UNCHANGED <<selected_thread, next_thread_id, next_task_id, active_model>>

\* model.stream_completion(request).await yields a stream
StreamStarted(t) ==
    /\ t.phase = "starting"
    /\ tasks' = (tasks \ {t}) \cup {[t EXCEPT !.phase = "streaming"]}
    /\ UNCHANGED <<threads, selected_thread, pending_tasks, next_thread_id,
                   next_comment_id, next_task_id, active_model, last_result>>

\* model.stream_completion(request).await fails: the error is wrapped by
\* .context(..), whose Display is the context text alone
StreamStartFailed(t) ==
    /\ t.phase = "starting"
    /\ Complete(t, StreamErr(<<"Failed to start AI stream">>))

\* the chunk step of a loop that assigns the chunk instead of appending it
StreamChunk_Overwrites(t, text) ==
    /\ t.phase = "streaming"
    /\ Len(t.received) < MaxChunks
    /\ tasks' = (tasks \ {t}) \cup
                {[t EXCEPT !.received = Append(@, text),
                           !.full_response = text]}
    /\ UNCHANGED <<threads, selected_thread, pending_tasks, next_thread_id,
                   next_comment_id, next_task_id, active_model, last_result>>

\* response_stream.next().await yields Some(Ok(text))
StreamChunk(t, text) ==
    /\ t.phase = "streaming"
    /\ Len(t.received) < MaxChunks
    /\ tasks' = (tasks \ {t}) \cup
                {[t EXCEPT !.received = Append(@, text),
                           !.full_response = @ \o text]}
    /\ UNCHANGED <<threads, selected_thread, pending_tasks, next_thread_id,
                   next_comment_id, next_task_id, active_model, last_result>>

\* response_stream.next().await yields Some(Err(e))
StreamChunkFailed(t, e) ==
    /\ t.phase = "streaming"
    /\ Complete(t, StreamErr(<<"Stream error: ", e>>))

\* response_stream.next().await yields None
StreamEnded(t) ==
    /\ t.phase = "streaming"
    /\ Complete(t, StreamOk(t.full_response))

\* one step of the task with id k
TaskStep(k) ==
    \E t \in tasks :
        /\ t.id = k
        /\ \/ StreamStarted(t)
           \/ StreamStartFailed(t)
           \/ \E text \in Chunks : StreamChunk(t, text)
           \/ \E e \in StreamErrors : StreamChunkFailed(t, e)
           \/ StreamEnded(t)

(* ---------------------------- specification ---------------------------- *)

Next ==
    \/ \E ed \in EditorStates, settings \in SettingsValues, input_text \in InputTexts :
           review_current_selection(ed, settings, input_text)
    \/ \E thread_id \in 1..MaxThreads, question \in FollowupQuestions,
          settings \in SettingsValues :
           add_followup(thread_id, question, settings)
    \/ clear_threads
    \/ \E thread_id \in 1..MaxThreads : resolve_thread(thread_id)
    \/ \E thread_id \in 1..MaxThreads : toggle_thread_collapsed(thread_id)
    \/ \E m \in {None} \cup {Some(x) : x \in Models} : SetActiveModel(m)
    \/ \E k \in 1..MaxComments : TaskStep(k)

Spec == Init /\ [][Next]_vars

\* the operations that dispatch, complete or orphan a request; resolve_thread
\* and toggle_thread_collapsed touch neither tasks nor comments
NextDispatch ==
    \/ \E ed \in EditorStates, settings \in SettingsValues, input_text \in InputTexts :
           review_current_selection(ed, settings, input_text)
    \/ \E thread_id \in 1..MaxThreads, question \in FollowupQuestions,
          settings \in SettingsValues :
           add_followup(thread_id, question, settings)
    \/ clear_threads
    \/ \E m \in {None} \cup {Some(x) : x \in Models} : SetActiveModel(m)
    \/ \E k \in 1..MaxComments : TaskStep(k)

\* every running task is scheduled, and the model client ends or fails every
\* stream it starts
SpecFair ==
    /\ Init
    /\ [][NextDispatch]_vars
    /\ \A k \in 1..MaxComments : WF_vars(TaskStep(k))

\* the models of a registry with two providers
ModelChoices == {"m1", "m2"}

\* the panel as constructed, with none or either of two models active
InitModels ==
    /\ threads = <<>>
    /\ selected_thread = None
    /\ pending_tasks = EmptyMap
    /\ tasks = {}
    /\ next_thread_id = 1
    /\ next_comment_id = 1
    /\ next_task_id = 1
    /\ active_model \in {None} \cup {Some(m) : m \in ModelChoices}
    /\ last_result = [task |-> 0, thread_id |-> 0, received |-> <<>>,
                      result |-> StreamErr(<<>>)]

\* the operations that dispatch or complete a request, and the changes of the
\* active model between two models and none
NextModels ==
    \/ \E ed \in EditorStates, settings \in SettingsValues, input_text \in InputTexts :
           review_current_selection(ed, settings, input_text)
    \/ \E thread_id \in 1..MaxThreads, question \in FollowupQuestions,
          settings \in SettingsValues :
           add_followup(thread_id, question, settings)
    \/ \E m \in {None} \cup {Some(x) : x \in ModelChoices} : SetActiveModel(m)
    \/ \E k \in 1..MaxComments : TaskStep(k)

SpecModels == InitModels /\ [][NextModels]_vars

(* ------------- the classifier on the response of one stream ------------ *)

\* the sequences over S of length at most n
SeqsUpTo(S, n) == UNION {[1..k -> S] : k \in 0..n}

\* pieces of response text: triggers of every tier in mixed case (the capitals
\* are those LowerChar knows), a trigger that holds a trigger of a lower tier,
\* a trigger in two halves, a near miss and plain text
SeverityPieces ==
    { <<"E", "r", "r", "o", "r", ":">>,
      <<"e", "r", "r", "o", "r">>,
      <<"B", "u", "g">>,
      <<"W", "a", "r", "n", "i", "n", "g", ":">>,
      <<"S", "h", "o", "u", "l", "d", " ", "C", "o", "n", "s", "i", "d", "e", "r">>,
      <<"m", "i", "g", "h", "t">>,
      <<" ", "c", "a", "u", "s", "e">>,
      <<"c", "o", "n", "s", "i", "d", "e", "r">>,
      <<"r", "e", "c", "o", "m", "m", "e", "n", "d">>,
      <<"o", "k", " ">> }

\* lines of response text: a fence, an indented fence with a language tag,
\* two lines of code and an empty line
ResponseLines ==
    { Fence, <<" ">> \o Fence \o <<"r", "s">>, <<"x">>, <<"y">>, <<>> }

\* the full responses a stream can have accumulated when it ends
ResponseTexts ==
    {Concat(ps) : ps \in SeqsUpTo(SeverityPieces, MaxPieces)}
    \cup {join(ls, <<"\n">>) : ls \in SeqsUpTo(ResponseLines, MaxLines)}

\* the thread review_current_selection creates for rows 2..3 of the buffer
FirstThread ==
    ReviewThread_new(1, 1,
        CaptureSelection([active |-> TRUE, empty |-> FALSE, start_row |-> 2,
                          end_row |-> 3, language |-> Some(<<"Rust">>),
                          file_path |-> Some(<<"src/a.rs">>)],
                         [context_lines |-> U32Of(1), custom_prompt |-> None]),
        DefaultQuestion)

\* the panel after one review was dispatched on m1 and its stream has
\* delivered response
InitClassifier ==
    \E response \in ResponseTexts :
        /\ threads = <<FirstThread>>
        /\ selected_thread = Some(1)
        /\ pending_tasks = MapInsert(EmptyMap, 1, 1)
        /\ tasks = {[id |-> 1, thread_id |-> 1, model |-> "m1",
                     request |-> [messages |->
                                     <<[role |-> "User",
                                        content |-> build_review_prompt(FirstThread, None),
                                        cache |-> FALSE]>>,
                                  tools |-> <<>>, stop |-> <<>>,
                                  temperature |-> Some("0.3")],
                     question |-> 1, phase |-> "streaming",
                     received |-> <<response>>, full_response |-> response]}
        /\ next_thread_id = 2
        /\ next_comment_id = 2
        /\ next_task_id = 2
        /\ active_model = Some("m1")
        /\ last_result = [task |-> 0, thread_id |-> 0, received |-> <<>>,
                          result |-> StreamErr(<<>>)]

\* the stream ends: stream_ai_response classifies the response and the
\* completion merges it
ClassifyResponse == \E t \in tasks : StreamEnded(t)

NextClassifier == ClassifyResponse

SpecClassifier == InitClassifier /\ [][NextClassifier]_vars

(* ----------------- the prompt of a dispatched request ------------------ *)

\* editors with a selection that is not blank: rows 0, 2..3 or 0..3, with and
\* without a language and a file
PromptEditorStates ==
    { [active |-> TRUE, empty |-> FALSE, start_row |-> rows[1], end_row |-> rows[2],
       language |-> language, file_path |-> file_path] :
         rows \in {<<0, 0>>, <<2, 3>>, <<0, 3>>},
         language \in {None, Some(<<"Rust">>)},
         file_path \in {None, Some(<<"src/a.rs">>)} }

\* settings with and without custom instructions
PromptSettings ==
    { [context_lines |-> U32Of(1), custom_prompt |-> custom_prompt] :
         custom_prompt \in {None, Some(<<"Be brief.">>)} }

\* the panel after one review was answered, by the model or by the no-model
\* error, and a model is active: thread 1 holds a question and a reply
InitPrompt ==
    \E ed \in PromptEditorStates, settings \in PromptSettings,
       input_text \in InputTexts, answered \in BOOLEAN :
        LET asked == ReviewThread_new(1, 1, CaptureSelection(ed, settings),
                        IF IsBlank(input_text) THEN DefaultQuestion ELSE input_text)
        IN  /\ threads =
                  IF answered
                  THEN <<add_ai_response(asked, 2, <<"o", "k">>, "Info", None)>>
                  ELSE add_error_to_thread(<<asked>>, 1, 2, NoModelMessage)
            /\ selected_thread = Some(1)
            /\ pending_tasks = EmptyMap
            /\ tasks = {}
            /\ next_thread_id = 2
            /\ next_comment_id = 3
            /\ next_task_id = IF answered THEN 2 ELSE 1
            /\ active_model = Some("m1")
            /\ last_result =
                  IF answered
                  THEN [task |-> 1, thread_id |-> 1, received |-> << <<"o", "k">> >>,
                        result |-> StreamOk(<<"o", "k">>)]
                  ELSE [task |-> 0, thread_id |-> 0, received |-> <<>>,
                        result |-> StreamErr(<<>>)]

\* the two operations that dispatch a request, each building its prompt
NextPrompt ==
    \/ \E ed \in PromptEditorStates, settings \in PromptSettings,
          input_text \in InputTexts :
           ReviewSelection(ed, settings, input_text)
    \/ \E thread_id \in 1..MaxThreads, question \in FollowupQuestions,
          settings \in PromptSettings :
           add_followup(thread_id, question, settings)

SpecPrompt == InitPrompt /\ [][NextPrompt]_vars

(* ------------- the context window over the whole u32 range ------------- *)

\* every selection of whole rows of the buffer, the whitespace-only one included
ContextEditorStates ==
    UNION { { [active |-> TRUE, empty |-> FALSE, start_row |-> start_row,
               end_row |-> end_row, language |-> None, file_path |-> None] :
                  end_row \in start_row..max_point_row } :
            start_row \in 0..max_point_row }

\* context_lines: none, a few rows, the default, 2^31, and the values at the
\* top of the u32 range, u32::MAX last
ContextLines ==
    { U32Of(0), U32Of(1), U32Of(2), U32Of(10), <<U32Half \div 2, 0>>,
      <<U32Half - 1, U32Half - 4>>, <<U32Half - 1, U32Half - 2>>, U32Max }

ContextSettings ==
    { [context_lines |-> context_lines, custom_prompt |-> None] :
          context_lines \in ContextLines }

\* the panel as constructed; the only operation is review_current_selection
NextContext ==
    \E ed \in ContextEditorStates, settings \in ContextSettings,
       input_text \in InputTexts :
        review_current_selection(ed, settings, input_text)

SpecContext == Init /\ [][NextContext]_vars

(* ------------------------------- claims -------------------------------- *)

\* the running tasks dispatched for thread_id
TasksFor(thread_id) == {t \in tasks : t.thread_id = thread_id}

\* task t of the current state is no longer running in the next state
Finishes(t) == \A u \in tasks' : u.id # t.id

\* the id of the most recent User comment of a thread
LatestUserComment(thread) ==
    LET users == {i \in DOMAIN thread.comments : thread.comments[i].role = "User"}
    IN  thread.comments[CHOOSE i \in users : \A j \in users : j <= i].id

Roles(thread) == [i \in DOMAIN thread.comments |-> thread.comments[i].role]

\* C1: in every reachable state each thread of the registry has is_loading
\* exactly when a pending-task entry is registered under its id.
C1_LoadingIffPending ==
    \A i \in DOMAIN threads :
        threads[i].is_loading <=> threads[i].id \in DOMAIN pending_tasks

\* C3: in every reachable state a thread's is_loading is true exactly while the
\* request dispatched for its most recent User comment is still running, that
\* is, its response has not been merged.
C3_LoadingIffLatestUnmerged ==
    \A i \in DOMAIN threads :
        threads[i].is_loading <=>
            \E t \in TasksFor(threads[i].id) :
                t.question = LatestUserComment(threads[i])

\* C4: at any time at most one dispatched and not yet completed task exists
\* for any one thread.
C4_AtMostOneRunningTask ==
    \A thread_id \in 1..MaxThreads : Cardinality(TasksFor(thread_id)) <= 1

\* the comments of the thread thread_id before and after the step
OldComments(thread_id) == FindThread(threads, thread_id).comments

NewComments(thread_id) == FindThread(threads', thread_id).comments

\* the step leaves thread_id with its old comments and exactly one more, c
AppendsOne(thread_id, c) ==
    /\ HasThread(threads', thread_id)
    /\ NewComments(thread_id) = Append(OldComments(thread_id), c)

\* the step appends a User comment to thread_id or creates it with one
NewUserComment(thread_id) ==
    /\ HasThread(threads', thread_id)
    /\ \E i \in DOMAIN NewComments(thread_id) :
          /\ NewComments(thread_id)[i].id = next_comment_id
          /\ NewComments(thread_id)[i].role = "User"
          /\ HasThread(threads, thread_id) => i = Len(OldComments(thread_id)) + 1

\* the questions a new thread can carry
AskedQuestion(input_text) ==
    IF IsBlank(input_text) THEN DefaultQuestion ELSE input_text

\* C2 as stated: every dispatched review that completes yields exactly one
\* new comment in its thread and leaves the thread with is_loading = false.
C2_EveryDispatchYieldsComment ==
    [][\A t \in tasks : Finishes(t) =>
          /\ HasThread(threads, t.thread_id)
          /\ HasThread(threads', t.thread_id)
          /\ Len(NewComments(t.thread_id)) = Len(OldComments(t.thread_id)) + 1
          /\ ~FindThread(threads', t.thread_id).is_loading]_vars

\* C2 amended: every dispatched task eventually completes; a dispatch with no
\* model merges its Error comment at once; a completion whose thread is still
\* in the registry appends exactly one Assistant comment and leaves
\* is_loading = false; a completion whose thread was cleared adds nothing.
C2_DispatchYieldsCommentUnlessCleared ==
    /\ \A k \in 1..MaxComments :
          (\E t \in tasks : t.id = k) ~> ~(\E t \in tasks : t.id = k)
    /\ [][/\ \A t \in tasks : Finishes(t) =>
                IF HasThread(threads, t.thread_id)
                THEN /\ HasThread(threads', t.thread_id)
                     /\ \E c \in Range(NewComments(t.thread_id)) :
                           /\ c.role = "Assistant"
                           /\ c.id = next_comment_id
                           /\ AppendsOne(t.thread_id, c)
                     /\ ~FindThread(threads', t.thread_id).is_loading
                ELSE threads' = threads
          /\ \A thread_id \in 1..MaxThreads : NewUserComment(thread_id) =>
                \/ \E t \in tasks' \ tasks :
                      /\ t.thread_id = thread_id
                      /\ t.question = next_comment_id
                      /\ FindThread(threads', thread_id).is_loading
                \/ LET new == NewComments(thread_id) IN
                      /\ tasks' = tasks
                      /\ new[Len(new)].role = "Assistant"
                      /\ new[Len(new) - 1].id = next_comment_id
                      /\ ~FindThread(threads', thread_id).is_loading]_vars

\* a dispatched review has completed and its one reply is in the thread
C2_Witness ==
    /\ last_result.task = 1
    /\ tasks = {}
    /\ \E i \in DOMAIN threads :
          /\ Roles(threads[i]) = <<"User", "Assistant">>
          /\ ~threads[i].is_loading

\* the content of the comment a finished task merges: its whole response, or
\* the message of one of the failures
ReplyContents(t) ==
    {t.full_response, <<"Failed to get AI response: ", "Failed to start AI stream">>}
    \cup {<<"Failed to get AI response: ", "Stream error: ", e>> : e \in StreamErrors}

\* C5: a follow-up on a thread that is awaiting a response replaces the tracked
\* handle of the thread and leaves the earlier task running; the completion of
\* a task that is not the tracked one still appends its Assistant comment at
\* the end of the thread, so replies stand in order of arrival.
C5_StaleCompletionAppends ==
    [][\A thread_id \in 1..MaxThreads :
          /\ ( /\ HasThread(threads, thread_id)
               /\ FindThread(threads, thread_id).is_loading
               /\ thread_id \in DOMAIN pending_tasks
               /\ \E t \in tasks' : t.id = next_task_id /\ t.thread_id = thread_id )
             => /\ pending_tasks'[thread_id] = next_task_id
                /\ pending_tasks[thread_id] # next_task_id
                /\ TasksFor(thread_id) \subseteq tasks'
          /\ \A t \in TasksFor(thread_id) :
                ( /\ Finishes(t)
                  /\ HasThread(threads, thread_id)
                  /\ HandleOf(pending_tasks, thread_id) # {t.id} )
                => \E content \in ReplyContents(t), severity \in {"Info", "Suggestion", "Warning", "Error"} :
                      \E c \in Range(NewComments(thread_id)) :
                         /\ c.id = next_comment_id
                         /\ c.role = "Assistant"
                         /\ c.content = content
                         /\ c.severity = Some(severity)
                         /\ AppendsOne(thread_id, c)]_vars

\* the task dispatched first has completed last: its reply stands after the
\* reply to the follow-up
C5_Witness ==
    /\ last_result.task = 1
    /\ next_task_id = 3
    /\ tasks = {}
    /\ \E i \in DOMAIN threads :
          /\ threads[i].id = last_result.thread_id
          /\ Roles(threads[i]) = <<"User", "User", "Assistant", "Assistant">>

\* C6: pending entries exist only for threads of the registry, a step that
\* removes a thread leaves the registry and the pending map empty, and the
\* completion of a task whose thread is gone changes neither the registry,
\* the pending map, the selection nor the comment counter.
C6_StaleCompletionNoOp ==
    /\ [](DOMAIN pending_tasks \subseteq ThreadIds(threads))
    /\ [][/\ (ThreadIds(threads) \ ThreadIds(threads') # {})
                => threads' = <<>> /\ pending_tasks' = EmptyMap
          /\ \A t \in tasks :
                (Finishes(t) /\ ~HasThread(threads, t.thread_id))
                => /\ threads' = threads
                   /\ pending_tasks' = pending_tasks
                   /\ selected_thread' = selected_thread
                   /\ next_comment_id' = next_comment_id
                   /\ tasks' = tasks \ {t}]_vars

\* every task ever dispatched has completed after its thread was cleared: no
\* Assistant comment was ever created and the registry is empty
C6_Witness ==
    /\ last_result.task > 0
    /\ tasks = {}
    /\ next_comment_id = next_task_id
    /\ threads = <<>>
    /\ pending_tasks = EmptyMap

\* the thread review_current_selection has just appended
NewThread == threads'[Len(threads')]

\* a thread keeps is_loading until a step appends an Assistant comment to it
LoadingUntilReply ==
    \A thread_id \in ThreadIds(threads) \cap ThreadIds(threads') :
        ( /\ FindThread(threads, thread_id).is_loading
          /\ ~FindThread(threads', thread_id).is_loading )
        => /\ Len(NewComments(thread_id)) > Len(OldComments(thread_id))
           /\ NewComments(thread_id)[Len(NewComments(thread_id))].role = "Assistant"

\* review_current_selection on a selection that is not blank appends exactly
\* one thread, whose first comment is the User's question
AddsOneThread(input_text) ==
    /\ Len(threads') = Len(threads) + 1
    /\ SubSeq(threads', 1, Len(threads)) = threads
    /\ NewThread.id = next_thread_id
    /\ NewThread.comments[1] =
          [id |-> next_comment_id, role |-> "User",
           content |-> AskedQuestion(input_text),
           severity |-> None, suggested_code |-> None]

\* C7 as stated: the thread review_selection adds has exactly one comment, the
\* User's question, and is_loading is true until a reply is merged.
C7_NewThreadHasOneComment ==
    [][/\ \A ed \in EditorStates, settings \in SettingsValues,
             input_text \in InputTexts :
             (next_thread_id' # next_thread_id
              /\ ReviewSelection(ed, settings, input_text))
             => /\ AddsOneThread(input_text)
                /\ Len(NewThread.comments) = 1
                /\ NewThread.is_loading
       /\ LoadingUntilReply]_vars

\* C7 amended: with a model configured the new thread has the question as its
\* one comment and is_loading is true until a reply is merged; with no model
\* configured it has the question and the Error comment and is not loading.
C7_NewThreadByModel ==
    [][/\ \A ed \in EditorStates, settings \in SettingsValues,
             input_text \in InputTexts :
             (next_thread_id' # next_thread_id
              /\ ReviewSelection(ed, settings, input_text))
             => /\ AddsOneThread(input_text)
                /\ IF active_model # None
                   THEN /\ Len(NewThread.comments) = 1
                        /\ NewThread.is_loading
                   ELSE /\ Len(NewThread.comments) = 2
                        /\ NewThread.comments[2].role = "Assistant"
                        /\ NewThread.comments[2].severity = Some("Error")
                        /\ ~NewThread.is_loading
       /\ LoadingUntilReply]_vars

\* a thread just created with a model configured: one comment, loading, its
\* task running
C7_Witness ==
    \E i \in DOMAIN threads :
        /\ Roles(threads[i]) = <<"User">>
        /\ threads[i].is_loading
        /\ \E t \in tasks : t.thread_id = threads[i].id /\ t.phase = "starting"

\* C8: a dispatch made while no model is configured appends, after the User
\* comment, exactly one Assistant comment of severity Error, leaves the thread
\* not loading and creates neither a task nor a pending entry.
C8_NoModelDispatch ==
    [][active_model = None =>
          \A thread_id \in 1..MaxThreads : NewUserComment(thread_id) =>
             LET new == NewComments(thread_id) IN
                /\ Len(new) = (IF HasThread(threads, thread_id)
                               THEN Len(OldComments(thread_id)) ELSE 0) + 2
                /\ new[Len(new) - 1].id = next_comment_id
                /\ new[Len(new)] =
                      [id |-> next_comment_id + 1, role |-> "Assistant",
                       content |-> NoModelMessage,
                       severity |-> Some("Error"), suggested_code |-> None]
                /\ ~FindThread(threads', thread_id).is_loading
                /\ tasks' = tasks
                /\ pending_tasks' = pending_tasks
                /\ next_task_id' = next_task_id]_vars

\* a follow-up made with no model: the thread ends with the question and the
\* Error comment, and no task was ever created
C8_Witness ==
    /\ next_task_id = 1
    /\ \E i \in DOMAIN threads :
          LET c == threads[i].comments IN
             /\ Len(c) = 4
             /\ c[3].role = "User"
             /\ c[4].content = NoModelMessage
             /\ c[4].severity = Some("Error")
             /\ ~threads[i].is_loading

\* what a failed stream leaves, err being the Display text of the error
FailureMerged(t, err) ==
    LET c == [id |-> next_comment_id, role |-> "Assistant",
              content |-> <<"Failed to get AI response: ">> \o err,
              severity |-> Some("Error"), suggested_code |-> None]
    IN  /\ AppendsOne(t.thread_id, c)
        /\ ~FindThread(threads', t.thread_id).is_loading
        /\ t.thread_id \notin DOMAIN pending_tasks'
        /\ \A i \in DOMAIN NewComments(t.thread_id) :
              /\ i > Len(OldComments(t.thread_id))
              /\ t.full_response # <<>>
              => ~Contains(NewComments(t.thread_id)[i].content, t.full_response)
        /\ \A text \in Range(t.received) :
              Range(text) \cap Range(c.content) = {}

\* C9: when a stream fails to start or fails at a chunk and the thread is in
\* the registry, the completion appends exactly one Assistant comment of
\* severity Error with the error message, clears is_loading and removes the
\* pending entry; no received chunk shows in it.
C9_FailureDiscardsPartial ==
    [][\A t \in tasks : (Finishes(t) /\ HasThread(threads, t.thread_id)) =>
          /\ StreamStartFailed(t)
                => FailureMerged(t, <<"Failed to start AI stream">>)
          /\ \A e \in StreamErrors :
                StreamChunkFailed(t, e)
                => FailureMerged(t, <<"Stream error: ", e>>)]_vars

\* a stream failed after delivering a chunk and the thread shows the error only
C9_Witness ==
    /\ ~last_result.result.ok
    /\ last_result.received # <<>>
    /\ \E i \in DOMAIN threads :
          LET c == threads[i].comments IN
             /\ threads[i].id = last_result.thread_id
             /\ c[Len(c)].id = next_comment_id - 1
             /\ c[Len(c)].content =
                    <<"Failed to get AI response: ">> \o last_result.result.err
             /\ c[Len(c)].severity = Some("Error")
             /\ ~threads[i].is_loading

\* C10: when a stream ends and the thread is in the registry, the completion
\* appends exactly one Assistant comment whose content is the chunks in arrival
\* order and whose severity and suggestion are those of the whole text (a
\* trigger or fence split over two chunks counts), clears is_loading and
\* removes the pending entry.
C10_SuccessMergesWhole ==
    [][\A t \in tasks :
          (Finishes(t) /\ HasThread(threads, t.thread_id) /\ StreamEnded(t)) =>
          LET whole == Concat(t.received)
              c == [id |-> next_comment_id, role |-> "Assistant",
                    content |-> whole,
                    severity |-> Some(detect_severity(whole)),
                    suggested_code |-> extract_code_suggestion(whole)]
          IN  /\ AppendsOne(t.thread_id, c)
              /\ Contains(to_lowercase(whole), <<"b", "u", "g">>)
                    => c.severity = Some("Error")
              /\ t.received = <<ChunkGTicks, ChunkBlockBu>>
                    => c.suggested_code = Some(<<"x">>)
              /\ ~FindThread(threads', t.thread_id).is_loading
              /\ t.thread_id \notin DOMAIN pending_tasks']_vars

\* a reply whose trigger "bug" arrived split over two chunks is an Error
C10_Witness ==
    \E i \in DOMAIN threads :
        LET c == threads[i].comments IN
           /\ c[Len(c)].role = "Assistant"
           /\ c[Len(c)].content = ChunkBlockBu \o ChunkGTicks
           /\ c[Len(c)].severity = Some("Error")
           /\ detect_severity(ChunkBlockBu) = "Info"
           /\ detect_severity(ChunkGTicks) = "Info"
           /\ ~threads[i].is_loading

\* the ids no thread of the registry carries
UnknownIds == (1..MaxThreads) \ ThreadIds(threads)

\* C11: add_followup, resolve_thread and toggle_thread_collapsed called with an
\* id that is not in the registry can always be called (they have no failure
\* path) and change nothing: threads, comments, flags, pending entries, running
\* tasks, selection and the three counters all stay as they are.
C11_UnknownIdNoOp ==
    /\ [](\A thread_id \in UnknownIds :
            /\ \A question \in FollowupQuestions, settings \in SettingsValues :
                  ENABLED add_followup(thread_id, question, settings)
            /\ ENABLED resolve_thread(thread_id)
            /\ ENABLED toggle_thread_collapsed(thread_id))
    /\ [][\A thread_id \in UnknownIds :
             ( \/ \E question \in FollowupQuestions, settings \in SettingsValues :
                     add_followup(thread_id, question, settings)
               \/ resolve_thread(thread_id)
               \/ toggle_thread_collapsed(thread_id) )
             => /\ threads' = threads
                /\ pending_tasks' = pending_tasks
                /\ tasks' = tasks
                /\ selected_thread' = selected_thread
                /\ next_thread_id' = next_thread_id
                /\ next_comment_id' = next_comment_id
                /\ next_task_id' = next_task_id]_vars

\* thread 1 is awaiting its reply and id 2 was never issued: the three
\* operations can be called with id 2, and as they change nothing this is also
\* the state each of them leaves
C11_Witness ==
    /\ ThreadIds(threads) = {1}
    /\ 2 \in UnknownIds
    /\ FindThread(threads, 1).is_loading
    /\ 1 \in DOMAIN pending_tasks
    /\ tasks # {}
    /\ ENABLED add_followup(2, <<"h", "o", "w", "?">>,
                            [context_lines |-> U32Of(1),
                             custom_prompt |-> Some(<<"Be brief.">>)])
    /\ ENABLED resolve_thread(2)
    /\ ENABLED toggle_thread_collapsed(2)

\* the step is a review_current_selection that creates a thread, or an
\* add_followup on a thread of the registry, made while a model is configured
DispatchesWithModel ==
    /\ active_model # None
    /\ \E thread_id \in 1..MaxThreads : NewUserComment(thread_id)

\* the step ends task t with a failure of its stream
FailsIn(t) ==
    \/ StreamStartFailed(t)
    \/ \E e \in StreamErrors : StreamChunkFailed(t, e)

PossibleResults(t) ==
    {StreamOk(t.full_response), StreamErr(<<"Failed to start AI stream">>)}
    \cup {StreamErr(<<"Stream error: ", e>>) : e \in StreamErrors}

\* the threads after task first completes with r1 and then task second with r2
MergedInOrder(first, r1, second, r2) ==
    LET after_first == MergeResultIn(threads, next_comment_id, first, r1)
    IN  MergeResultIn(after_first, next_comment_id + 1, second, r2)

\* a thread without the ids of its comments
StripIds(thread) ==
    [thread EXCEPT !.comments = [i \in DOMAIN @ |-> [@[i] EXCEPT !.id = 0]]]

\* two running tasks of two different threads of the registry
RunningPairs ==
    {p \in tasks \X tasks :
        /\ p[1].thread_id # p[2].thread_id
        /\ HasThread(threads, p[1].thread_id)
        /\ HasThread(threads, p[2].thread_id)}

\* a merge for task t changes, in the thread list ths, only the comments and
\* is_loading of the thread of t
MergeFrame(ths, t, merged) ==
    /\ Len(merged) = Len(ths)
    /\ \A i \in DOMAIN ths :
          IF ths[i].id = t.thread_id
          THEN merged[i] = [ths[i] EXCEPT !.comments = merged[i].comments,
                                         !.is_loading = merged[i].is_loading]
          ELSE merged[i] = ths[i]

\* C13 as stated: a completion for thread A changes only A's comments and
\* is_loading, and whichever of two threads' completions comes first, each
\* thread ends in the same state.
C13_SameStateAnyOrder ==
    \A p \in RunningPairs :
        \A r1 \in PossibleResults(p[1]), r2 \in PossibleResults(p[2]) :
            /\ MergeFrame(threads, p[1],
                          MergeResultIn(threads, next_comment_id, p[1], r1))
            /\ \A thread_id \in ThreadIds(threads) :
                  FindThread(MergedInOrder(p[1], r1, p[2], r2), thread_id)
                  = FindThread(MergedInOrder(p[2], r2, p[1], r1), thread_id)

\* C13 amended: a completion for thread A changes only A's comments, A's
\* is_loading and A's pending entry, and whichever of two threads' completions
\* comes first, each thread ends in the same state except for the ids of the
\* reply comments, which follow the order of completion.
C13_SameStateUpToIds ==
    /\ [](\A p \in RunningPairs :
            \A r1 \in PossibleResults(p[1]), r2 \in PossibleResults(p[2]) :
                /\ MergeFrame(threads, p[1],
                              MergeResultIn(threads, next_comment_id, p[1], r1))
                /\ \A thread_id \in ThreadIds(threads) :
                      StripIds(FindThread(MergedInOrder(p[1], r1, p[2], r2),
                                          thread_id))
                      = StripIds(FindThread(MergedInOrder(p[2], r2, p[1], r1),
                                            thread_id)))
    /\ [][\A t \in tasks : Finishes(t) =>
             /\ MergeFrame(threads, t, threads')
             /\ \A thread_id \in (DOMAIN pending_tasks) \ {t.thread_id} :
                   /\ thread_id \in DOMAIN pending_tasks'
                   /\ pending_tasks'[thread_id] = pending_tasks[thread_id]
             /\ DOMAIN pending_tasks' \subseteq DOMAIN pending_tasks]_vars

\* two threads were dispatched in the order 1, 2 and answered in the order
\* 2, 1: the reply of thread 2 carries the smaller comment id
C13_Witness ==
    /\ last_result.task = 1
    /\ tasks = {}
    /\ Len(threads) = 2
    /\ Roles(threads[1]) = <<"User", "Assistant">>
    /\ Roles(threads[2]) = <<"User", "Assistant">>
    /\ threads[2].comments[2].id < threads[1].comments[2].id
    /\ ~threads[1].is_loading /\ ~threads[2].is_loading

\* C14: a change or removal of the active model leaves every dispatched task
\* as it is; a task keeps the model and the request it was dispatched with
\* until it completes, and its completion is merged whatever model is active
\* by then; a dispatch made after the change runs on the model active at that
\* moment, or takes the no-model error path when there is none.
C14_ModelReadAtDispatch ==
    [][/\ active_model' # active_model
             => /\ tasks' = tasks
                /\ threads' = threads
                /\ pending_tasks' = pending_tasks
       /\ \A t \in tasks : \A u \in tasks' :
             u.id = t.id => u.model = t.model /\ u.request = t.request
       /\ \A t \in tasks :
             (Finishes(t) /\ HasThread(threads, t.thread_id))
             => /\ last_result'.task = t.id
                /\ Len(NewComments(t.thread_id))
                   = Len(OldComments(t.thread_id)) + 1
       /\ \A thread_id \in 1..MaxThreads : NewUserComment(thread_id) =>
             IF active_model = None
             THEN /\ tasks' = tasks
                  /\ LET new == NewComments(thread_id) IN
                        /\ new[Len(new)].content = NoModelMessage
                        /\ new[Len(new)].severity = Some("Error")
             ELSE \E u \in tasks' :
                     /\ u.id = next_task_id
                     /\ u.thread_id = thread_id
                     /\ u.model = active_model[1]]_vars

\* thread A was dispatched on m1, the model was changed to m2 and thread B
\* dispatched: A's request is still running on m1, B's runs on m2
C14_Witness ==
    /\ active_model = Some("m2")
    /\ \E t \in tasks, u \in tasks :
          /\ t.id < u.id
          /\ t.thread_id # u.thread_id
          /\ t.model = "m1"
          /\ u.model = "m2"

\* the response the last completed stream had accumulated, chunk after chunk
LastResponse == Concat(last_result.received)

\* a trigger of the set occurs in the response, whatever its case
HasTrigger(triggers, response) ==
    \E p \in triggers : Contains(to_lowercase(response), p)

SeverityRank(severity) ==
    CASE severity = "Error" -> 3
      [] severity = "Warning" -> 2
      [] severity = "Suggestion" -> 1
      [] severity = "Info" -> 0

\* the reply the last completion appended to thread 1
LastReply == threads[1].comments[Len(threads[1].comments)]

\* C15: the severity of a classified response is one of the four tiers, and it
\* is the highest tier of which a trigger occurs in the response compared
\* without case (Error > Warning > Suggestion), Info when none occurs.
C15_SeverityPrecedence ==
    (last_result.task = 1 /\ last_result.result.ok) =>
        LET severity == last_result.result.severity
            present == {0}
                \cup (IF HasTrigger(ErrorTriggers, LastResponse) THEN {3} ELSE {})
                \cup (IF HasTrigger(WarningTriggers, LastResponse) THEN {2} ELSE {})
                \cup (IF HasTrigger(SuggestionTriggers, LastResponse) THEN {1} ELSE {})
        IN  /\ severity \in {"Error", "Warning", "Suggestion", "Info"}
            /\ SeverityRank(severity) \in present
            /\ \A r \in present : r <= SeverityRank(severity)
            /\ LastReply.severity = Some(severity)

\* "Should Consider" was classified: it holds the Warning trigger
\* "should consider" and, within it, the Suggestion trigger "consider", and
\* the reply is a Warning
C15_Witness ==
    /\ last_result.task = 1
    /\ LastResponse =
          <<"S", "h", "o", "u", "l", "d", " ", "C", "o", "n", "s", "i", "d", "e", "r">>
    /\ HasTrigger(WarningTriggers, LastResponse)
    /\ HasTrigger(SuggestionTriggers, LastResponse)
    /\ LastReply.severity = Some("Warning")

\* the rows of ls that are fences: trimmed, they start with three backticks
FenceRows(ls) == {i \in DOMAIN ls : StartsWith(trim(ls[i]), Fence)}

\* the n-th fence of ls, counted from the top
NthFence(ls, n) ==
    CHOOSE i \in FenceRows(ls) : Cardinality({j \in FenceRows(ls) : j <= i}) = n

\* the complete fenced blocks of ls: fences pair up in order, an odd last
\* fence opens a block that is never closed
BlockCount(ls) == Cardinality(FenceRows(ls)) \div 2

\* the lines between the fences of the k-th complete block
Block(ls, k) == SubSeq(ls, NthFence(ls, 2 * k - 1) + 1, NthFence(ls, 2 * k) - 1)

\* the suggestion of the last classified response
LastSuggestion == last_result.result.suggestion

\* the last completion was the end of the stream of task 1
Classified == last_result.task = 1 /\ last_result.result.ok

\* C16 as stated: a suggestion that is returned is the content of the first
\* complete fenced block of the response, its lines joined by newlines.
C16_FirstBlockReturned ==
    (Classified /\ LastSuggestion # None) =>
        LET ls == lines(LastResponse) IN
            /\ BlockCount(ls) >= 1
            /\ LastSuggestion = Some(join(Block(ls, 1), <<"\n">>))

\* C16 amended: a suggestion that is returned is the content, its lines joined
\* by newlines, of the first complete fenced block that has at least one line;
\* complete blocks without any line before it are skipped, and no later block
\* is returned. The reply carries that suggestion.
C16_FirstNonEmptyBlockReturned ==
    (Classified /\ LastSuggestion # None) =>
        LET ls == lines(LastResponse) IN
            /\ \E k \in 1..BlockCount(ls) :
                  /\ Block(ls, k) # <<>>
                  /\ \A j \in 1..(k - 1) : Block(ls, j) = <<>>
                  /\ LastSuggestion = Some(join(Block(ls, k), <<"\n">>))
            /\ LastReply.suggested_code = LastSuggestion

\* a response with the blocks "x" and "y" was classified: the suggestion is "x"
C16_Witness ==
    /\ Classified
    /\ lines(LastResponse) = <<Fence, <<"x">>, Fence, Fence, <<"y">>, Fence>>
    /\ LastSuggestion = Some(<<"x">>)
    /\ LastReply.suggested_code = Some(<<"x">>)

PersonaBlock ==
    <<"You are an expert code reviewer. Analyze the following code and provide constructive feedback.\n\n",
      "## Guidelines:\n",
      "- Focus on code quality, potential bugs, and best practices\n",
      "- Provide specific, actionable suggestions\n",
      "- If you suggest code changes, provide the improved code\n",
      "- Be concise but thorough\n",
      "- Categorize your feedback by severity: Error (bugs/security issues), Warning (potential problems), Suggestion (improvements), or Info (explanations)\n\n">>

\* a text between two fence lines
Fenced(text) == Fence \o <<"\n">> \o text \o <<"\n">> \o Fence \o <<"\n\n">>

\* the contents of the User comments, in thread order, a newline after each
QuestionBlock(comments) ==
    LET IsUser(c) == c.role = "User"
        users == SelectSeq(comments, IsUser)
    IN  Concat([i \in DOMAIN users |-> users[i].content \o <<"\n">>])

\* the blocks of the prompt for a thread, in their order
PromptBlocks(thread, custom_prompt) ==
    << IF custom_prompt = None THEN <<>> ELSE custom_prompt[1] \o <<"\n\n">>,
       PersonaBlock,
       IF thread.selection.language = None THEN <<>>
       ELSE <<"## Language: ">> \o thread.selection.language[1] \o <<"\n\n">>,
       <<"## File: ">> \o thread.selection.file_path
          \o <<" (lines ", ToString(thread.selection.line_range[1]), "-",
                ToString(thread.selection.line_range[2] - 1), ")\n\n">>,
       <<"## Context (surrounding code):\n">> \o Fenced(thread.selection.context),
       <<"## Selected code to review:\n">> \o Fenced(thread.selection.selected_text),
       <<"## User's question/request:\n">> \o QuestionBlock(thread.comments),
       <<"\n## Your review:\n">> >>

\* the first position of element e in text t, 0 when it does not occur
IndexOf(t, e) ==
    IF \E i \in DOMAIN t : t[i] = e
    THEN CHOOSE i \in DOMAIN t : t[i] = e /\ \A j \in 1..(i - 1) : t[j] # e
    ELSE 0

\* the headers of the blocks stand in the prompt in this order, each once
HeadersInOrder(prompt, thread, custom_prompt) ==
    LET headers ==
            (IF custom_prompt = None THEN <<>> ELSE <<custom_prompt[1][1]>>)
            \o <<PersonaBlock[1]>>
            \o (IF thread.selection.language = None THEN <<>>
                ELSE <<"## Language: ">>)
            \o <<"## File: ", "## Context (surrounding code):\n",
                 "## Selected code to review:\n", "## User's question/request:\n",
                 "\n## Your review:\n">>
    IN  /\ \A i \in DOMAIN headers : IndexOf(prompt, headers[i]) > 0
        /\ \A i \in 1..(Len(headers) - 1) :
              IndexOf(prompt, headers[i]) < IndexOf(prompt, headers[i + 1])
        /\ IndexOf(prompt, headers[1]) = 1
        /\ IndexOf(prompt, headers[Len(headers)]) = Len(prompt)
        /\ thread.selection.language = None => IndexOf(prompt, "## Language: ") = 0

\* C18: the prompt of every dispatched request is, in this order: the custom
\* instructions (only when the settings hold some), the persona and
\* guidelines, the language (only when the selection has one), the file path
\* with the lines line_range.start to line_range.end - 1, the fenced context,
\* the fenced selected text, the question block with the content of every User
\* comment the thread holds at dispatch, in thread order, and of no Assistant
\* comment, and the review cue.
C18_PromptBlocksInOrder ==
    [][\A settings \in PromptSettings :
          ( /\ next_task_id' # next_task_id
            /\ \/ \E ed \in PromptEditorStates, input_text \in InputTexts :
                     ReviewSelection(ed, settings, input_text)
               \/ \E thread_id \in 1..MaxThreads, question \in FollowupQuestions :
                     add_followup(thread_id, question, settings) )
          => \E u \in tasks' :
                LET thread == FindThread(threads', u.thread_id)
                    prompt == u.request.messages[1].content
                IN  /\ u.id = next_task_id
                    /\ Len(u.request.messages) = 1
                    /\ prompt = Concat(PromptBlocks(thread, settings.custom_prompt))
                    /\ HeadersInOrder(prompt, thread, settings.custom_prompt)
                    /\ \A i \in DOMAIN thread.comments :
                          thread.comments[i].role = "Assistant"
                          => ~Contains(prompt, thread.comments[i].content)]_vars

\* a follow-up was dispatched on a thread with a language, a question and a
\* reply, with custom instructions set: the prompt opens with the
\* instructions, names the language and the lines 3-4 and holds both questions
C18_Witness ==
    \E t \in tasks :
        LET thread == FindThread(threads, t.thread_id)
            prompt == t.request.messages[1].content
        IN  /\ Roles(thread) = <<"User", "Assistant", "User">>
            /\ prompt[1] = "Be brief."
            /\ Contains(prompt, <<"## Language: ", "Rust", "\n\n", "## File: ",
                                  "src/a.rs", " (lines ", "3", "-", "4", ")\n\n">>)
            /\ Contains(prompt, <<"## User's question/request:\n", "w", "h", "y", "?",
                                  "\n", "h", "o", "w", "?", "\n",
                                  "\n## Your review:\n">>)

\* the step changes nothing but the thread list
OnlyThreadsChange ==
    UNCHANGED <<selected_thread, pending_tasks, tasks, next_thread_id,
                next_comment_id, next_task_id, active_model, last_result>>

\* C19: on every thread of the registry, whatever its state, a second resolve
\* leaves what the first left, with is_resolved = true, and a second
\* toggle_collapsed gives back the thread as it was; resolve_thread and
\* toggle_thread_collapsed apply exactly these changes to the thread they find
\* and to nothing else.
C19_ResolveTwiceToggleTwice ==
    /\ [](\A i \in DOMAIN threads :
            /\ resolve(threads[i]).is_resolved
            /\ resolve(resolve(threads[i])) = resolve(threads[i])
            /\ toggle_collapsed(threads[i]).is_collapsed = ~threads[i].is_collapsed
            /\ toggle_collapsed(toggle_collapsed(threads[i])) = threads[i])
    /\ [][\A thread_id \in ThreadIds(threads) :
             /\ (OnlyThreadsChange /\ resolve_thread(thread_id))
                   => threads' = ReplaceThread(threads, thread_id,
                                    [FindThread(threads, thread_id)
                                        EXCEPT !.is_resolved = TRUE])
             /\ (OnlyThreadsChange /\ toggle_thread_collapsed(thread_id))
                   => threads' = ReplaceThread(threads, thread_id,
                                    [FindThread(threads, thread_id)
                                        EXCEPT !.is_collapsed =
                                            ~FindThread(threads, thread_id).is_collapsed])]_vars

\* a thread that was resolved and collapsed while it awaits its reply
C19_Witness ==
    \E i \in DOMAIN threads :
        /\ threads[i].is_resolved
        /\ threads[i].is_collapsed
        /\ threads[i].is_loading
        /\ threads[i].id \in DOMAIN pending_tasks

\* the comments of all threads of a list, each with the id of its thread
AllComments(ths) ==
    UNION { {<<ths[i].id, ths[i].comments[j]>> : j \in DOMAIN ths[i].comments} :
            i \in DOMAIN ths }

\* C20: both counters start at 1 and never decrease, clear_threads included;
\* the ids in the registry are distinct and below their counter; a thread or
\* comment that a step adds carries an id that is at least the counter before
\* the step, hence larger than every id issued before, and the counter ends
\* above it.
C20_IdsNeverReused ==
    /\ next_thread_id = 1 /\ next_comment_id = 1
    /\ [](/\ \A i \in DOMAIN threads :
               /\ threads[i].id >= 1 /\ threads[i].id < next_thread_id
               /\ \A j \in DOMAIN threads : threads[j].id = threads[i].id => j = i
          /\ \A c \in AllComments(threads) :
               /\ c[2].id >= 1 /\ c[2].id < next_comment_id
               /\ \A d \in AllComments(threads) : d[2].id = c[2].id => d = c)
    /\ [][/\ next_thread_id' >= next_thread_id
          /\ next_comment_id' >= next_comment_id
          /\ \A thread_id \in ThreadIds(threads') \ ThreadIds(threads) :
                thread_id >= next_thread_id /\ thread_id < next_thread_id'
          /\ \A c \in AllComments(threads') \ AllComments(threads) :
                c[2].id >= next_comment_id /\ c[2].id < next_comment_id']_vars

\* after clear_threads a new thread was created: it carries id 2 and its
\* question an id above 1, with nothing left of thread 1
C20_Witness ==
    /\ Len(threads) = 1
    /\ threads[1].id = 2
    /\ threads[1].comments[1].id > 1
    /\ next_thread_id = 3

\* the questions review_current_selection creates a thread with
CreationQuestions == {AskedQuestion(input_text) : input_text \in InputTexts}

\* C21: every thread of the registry has at least one comment; the first is a
\* User comment, the oldest of the thread, and its content is a question
\* review_current_selection creates a thread with, never a follow-up question
\* or a reply.
C21_FirstCommentIsQuestion ==
    \A i \in DOMAIN threads :
        LET comments == threads[i].comments IN
            /\ comments # <<>>
            /\ comments[1].role = "User"
            /\ comments[1].content \in CreationQuestions
            /\ comments[1].content \notin FollowupQuestions
            /\ \A j \in 2..Len(comments) : comments[1].id < comments[j].id

\* a thread that has taken a follow-up and two replies still starts with the
\* question typed when it was created
C21_Witness ==
    \E i \in DOMAIN threads :
        /\ Len(threads[i].comments) = 4
        /\ \E j \in 2..4 : threads[i].comments[j].role = "User"
        /\ threads[i].comments[1].role = "User"
        /\ threads[i].comments[1].content = <<"w", "h", "y", "?">>

\* the ids of the registry's threads, in registry order
IdSeq(ths) == [i \in DOMAIN ths |-> ths[i].id]

\* C22: a thread leaves the registry only through clear_threads: every step
\* that changes the sequence of thread ids either is clear_threads, which
\* empties it, or is review_current_selection appending the one new thread at
\* the end; add_followup, resolve_thread, toggle_thread_collapsed and the task
\* steps leave the ids and their order as they were.
C22_LeavesOnlyByClear ==
    [][ IdSeq(threads') # IdSeq(threads) =>
          \/ clear_threads /\ threads' = <<>>
          \/ /\ IdSeq(threads') = Append(IdSeq(threads), next_thread_id)
             /\ next_thread_id' = next_thread_id + 1
             /\ \E ed \in EditorStates, settings \in SettingsValues,
                   input_text \in InputTexts :
                    ReviewSelection(ed, settings, input_text) ]_vars

\* two threads in creation order, the first resolved and collapsed, the
\* second answered
C22_Witness ==
    /\ IdSeq(threads) = <<1, 2>>
    /\ threads[1].is_resolved /\ threads[1].is_collapsed
    /\ Len(threads[2].comments) = 2

\* the editor has a selection that is empty or covers only spaces and line ends
NothingSelected(ed) ==
    /\ ed.active
    /\ \/ ed.empty
       \/ LET text == RowsText(ed.start_row, ed.end_row)
          IN  \A i \in DOMAIN text : text[i] \in {" ", "\n"}

\* C23: review_current_selection with an empty selection, or a selection
\* whose text is only whitespace, can always be called and creates no thread
\* and dispatches no request: the registry, the pending-task map, the running
\* tasks, the selected thread and the id counters stay as they are.
C23_BlankSelectionIgnored ==
    /\ [](\A ed \in EditorStates, settings \in SettingsValues,
             input_text \in InputTexts :
              NothingSelected(ed) =>
                  ENABLED review_current_selection(ed, settings, input_text))
    /\ [][\A ed \in EditorStates :
             ( /\ NothingSelected(ed)
               /\ \E settings \in SettingsValues, input_text \in InputTexts :
                      review_current_selection(ed, settings, input_text) )
             => /\ threads' = threads
                /\ pending_tasks' = pending_tasks
                /\ tasks' = tasks
                /\ selected_thread' = selected_thread
                /\ next_thread_id' = next_thread_id
                /\ next_comment_id' = next_comment_id
                /\ next_task_id' = next_task_id]_vars

\* thread 1 is selected and awaits its reply, there is room for a second
\* thread, and the editor offers both an empty and a whitespace-only
\* selection: the call can be made and, changing nothing, leaves this state
C23_Witness ==
    /\ ThreadIds(threads) = {1}
    /\ selected_thread = Some(1)
    /\ 1 \in DOMAIN pending_tasks
    /\ next_thread_id <= MaxThreads /\ CommentRoom
    /\ \E ed \in EditorStates : NothingSelected(ed) /\ ed.empty
    /\ \E ed \in EditorStates :
          /\ NothingSelected(ed) /\ ~ed.empty
          /\ ENABLED ReviewIgnored(ed)
          /\ \A settings \in SettingsValues, input_text \in InputTexts :
                ~ENABLED ReviewSelection(ed, settings, input_text)

\* context_lines, a u32, is at least the number n
U32AtLeast(context_lines, n) == context_lines[1] > 0 \/ context_lines[2] >= n

\* max(0, start_row - context_lines)
WindowStart(start_row, context_lines) ==
    IF U32AtLeast(context_lines, start_row) THEN 0
    ELSE start_row - context_lines[2]

\* min(end_row + context_lines + 1, last_row + 1)
WindowEnd(end_row, context_lines) ==
    IF U32AtLeast(context_lines, max_point_row - end_row) THEN max_point_row + 1
    ELSE end_row + context_lines[2] + 1

\* C24: for every selection of the buffer and every u32 value of
\* context_lines, the context review_current_selection captures is the rows
\* from max(0, start_row - context_lines) up to but not including
\* min(end_row + context_lines + 1, last_row + 1), so it contains every
\* selected row.
C24_ContextCoversWindow ==
    [][\A ed \in ContextEditorStates, settings \in ContextSettings :
          ( /\ next_thread_id' = next_thread_id + 1
            /\ \E input_text \in InputTexts :
                   ReviewSelection(ed, settings, input_text) )
          => LET first == WindowStart(ed.start_row, settings.context_lines)
                 end == WindowEnd(ed.end_row, settings.context_lines)
             IN  /\ first <= ed.start_row /\ ed.end_row < end
                 /\ end <= max_point_row + 1
                 /\ lines(NewThread.selection.context)
                      = SubSeq(Buffer, first + 1, end)
                 /\ Contains(NewThread.selection.context,
                             NewThread.selection.selected_text)]_vars

\* the positions of the comments that carry a severity
WithSeverity(comments) == {i \in DOMAIN comments : comments[i].severity # None}

\* the positions of the Assistant comments
Replies(comments) == {i \in DOMAIN comments : comments[i].role = "Assistant"}

\* the largest position of a non-empty set of positions
Latest(positions) == CHOOSE i \in positions : \A j \in positions : j <= i

\* C25: for every thread, last_severity is the severity of the most recently
\* appended comment that carries one, which is the verdict of the latest
\* Assistant comment, and is None exactly when no comment carries a severity.
C25_LastSeverityIsLatestVerdict ==
    \A i \in DOMAIN threads :
        LET comments == threads[i].comments
            verdict == last_severity(comments)
        IN  /\ verdict = None <=> WithSeverity(comments) = {}
            /\ WithSeverity(comments) # {} =>
                  verdict = comments[Latest(WithSeverity(comments))].severity
            /\ Replies(comments) # {} =>
                  verdict = comments[Latest(Replies(comments))].severity
            /\ Replies(comments) = {} => verdict = None

\* a thread whose two replies, the second and the fourth comment, differ in
\* severity: last_severity is the later reply's severity
C25_Witness ==
    \E i \in DOMAIN threads :
        LET comments == threads[i].comments
        IN  /\ Replies(comments) = {2, 4}
            /\ WithSeverity(comments) = {2, 4}
            /\ comments[2].severity # comments[4].severity
            /\ last_severity(comments) = comments[4].severity

\* C26: in every reachable state, a thread has is_loading exactly when the
\* last comment of its comment sequence is a User comment.
C26_LoadingIffLastIsUser ==
    \A i \in DOMAIN threads :
        LET comments == threads[i].comments
        IN  /\ comments # <<>>
            /\ threads[i].is_loading <=> comments[Len(comments)].role = "User"

\* a thread that rested behind its reply took a follow-up: it is loading
\* again behind the User comment while the request runs
C26_Witness ==
    \E i \in DOMAIN threads :
        /\ Roles(threads[i]) = <<"User", "Assistant", "User">>
        /\ threads[i].is_loading
        /\ TasksFor(threads[i].id) # {}

\* the number of comments of a thread with the given role
CountRole(thread, role) ==
    Cardinality({i \in DOMAIN thread.comments : thread.comments[i].role = role})

\* C27: in every reachable state a thread has at most as many Assistant
\* comments as User comments, and the replies still to come from its running
\* requests cannot take it past that: Assistant comments plus running
\* requests of the thread are at most its User comments.
C27_RepliesAtMostQuestions ==
    \A i \in DOMAIN threads :
        /\ CountRole(threads[i], "Assistant") <= CountRole(threads[i], "User")
        /\ CountRole(threads[i], "Assistant")
             + Cardinality(TasksFor(threads[i].id))
               <= CountRole(threads[i], "User")

\* a thread asked twice before any reply whose two requests have both been
\* answered, one of them with an Error comment: two questions, two replies
C27_Witness ==
    \E i \in DOMAIN threads :
        /\ Roles(threads[i]) = <<"User", "User", "Assistant", "Assistant">>
        /\ \E j \in 3..4 : threads[i].comments[j].severity = Some("Error")
        /\ TasksFor(threads[i].id) = {}

\* the threads that are in the registry before and after the step
KeptThreads == ThreadIds(threads) \cap ThreadIds(threads')

\* the step leaves the comments thread_id had, in their order, at the front
KeepsComments(thread_id) ==
    /\ Len(NewComments(thread_id)) >= Len(OldComments(thread_id))
    /\ SubSeq(NewComments(thread_id), 1, Len(OldComments(thread_id)))
         = OldComments(thread_id)

\* the number of comments the step adds to thread_id
Added(thread_id) == Len(NewComments(thread_id)) - Len(OldComments(thread_id))

\* C28 as stated: every step leaves the comments a thread had (id, role,
\* content, severity, suggested code) and their order unchanged and adds at
\* most one comment at the end.
C28_AppendsAtMostOne ==
    [][threads' # threads =>
          \A thread_id \in KeptThreads :
              KeepsComments(thread_id) /\ Added(thread_id) <= 1]_vars

\* C28: a thread's comment sequence is append-only: every step leaves the
\* comments the thread had and their order unchanged and adds at most one
\* comment at the end, or two when it is an add_followup made while no model
\* is configured: the User comment of the question and the Error comment.
C28_AppendOnly ==
    [][threads' # threads =>
          \A thread_id \in KeptThreads :
              /\ KeepsComments(thread_id)
              /\ \/ Added(thread_id) <= 1
                 \/ /\ Added(thread_id) = 2
                    /\ active_model = None
                    /\ \E question \in FollowupQuestions,
                          settings \in SettingsValues :
                           add_followup(thread_id, question, settings)
                    /\ LET n == Len(OldComments(thread_id))
                           added == SubSeq(NewComments(thread_id), n + 1, n + 2)
                       IN  /\ added[1].role = "User"
                           /\ added[2].role = "Assistant"
                           /\ added[2].severity = Some("Error")
                           /\ added[2].content = NoModelMessage]_vars

\* a thread answered once took a follow-up with no model configured: behind
\* its first two comments stand the question and the Error comment
C28_Witness ==
    /\ active_model = None
    /\ \E i \in DOMAIN threads :
          /\ Roles(threads[i]) = <<"User", "Assistant", "User", "Assistant">>
          /\ threads[i].comments[2].content # NoModelMessage
          /\ threads[i].comments[3].content \in FollowupQuestions
          /\ threads[i].comments[4].content = NoModelMessage
          /\ threads[i].comments[4].id = threads[i].comments[3].id + 1

\* the step changes, in the thread at position i, the named flag to value
\* and nothing else, and leaves every other thread as it was
OnlyFlagChanges(i, flag, value) ==
    /\ DOMAIN threads' = DOMAIN threads
    /\ \A j \in DOMAIN threads :
          IF j = i
          THEN /\ threads'[j] = [threads[j] EXCEPT ![flag] = value]
               /\ threads'[j].comments = threads[j].comments
               /\ threads'[j].is_loading = threads[j].is_loading
          ELSE threads'[j] = threads[j]

\* C29: resolve_thread on a thread of the registry changes only that
\* thread's is_resolved, and toggle_thread_collapsed only its is_collapsed:
\* comments, is_loading, the pending-task map, the running tasks and all
\* other threads are unchanged. No step sets is_resolved of a thread back to
\* false, and a resolved thread takes follow-ups and replies as any other:
\* add_followup appends its User comment and a finishing request of the
\* thread appends its Assistant comment.
C29_ResolveToggleFrame ==
    [][/\ \A i \in DOMAIN threads :
             /\ resolve_thread(threads[i].id)
                   => /\ OnlyFlagChanges(i, "is_resolved", TRUE)
                      /\ pending_tasks' = pending_tasks /\ tasks' = tasks
             /\ toggle_thread_collapsed(threads[i].id)
                   => /\ OnlyFlagChanges(i, "is_collapsed", ~threads[i].is_collapsed)
                      /\ pending_tasks' = pending_tasks /\ tasks' = tasks
       /\ threads' # threads =>
             \A thread_id \in KeptThreads :
                 FindThread(threads, thread_id).is_resolved =>
                     /\ FindThread(threads', thread_id).is_resolved
                     /\ (\E question \in FollowupQuestions,
                            settings \in SettingsValues :
                             add_followup(thread_id, question, settings))
                           => /\ Added(thread_id) >= 1
                              /\ NewComments(thread_id)
                                    [Len(OldComments(thread_id)) + 1].role = "User"
                     /\ (\E t \in TasksFor(thread_id) : Finishes(t))
                           => /\ Added(thread_id) = 1
                              /\ NewComments(thread_id)
                                    [Len(NewComments(thread_id))].role = "Assistant"
      ]_vars

\* a resolved and collapsed thread that has its reply, took a follow-up and
\* awaits the reply to it
C29_Witness ==
    \E i \in DOMAIN threads :
        /\ threads[i].is_resolved /\ threads[i].is_collapsed
        /\ Roles(threads[i]) = <<"User", "Assistant", "User">>
        /\ threads[i].is_loading
        /\ TasksFor(threads[i].id) # {}
        /\ threads[i].id \in DOMAIN pending_tasks

\* the values of ReviewSeverity
Severities == {"Error", "Warning", "Suggestion", "Info"}

\* C30: in every reachable state every Assistant comment carries a severity,
\* one of the four values, and every User comment carries neither a severity
\* nor suggested code.
C30_SeverityByRole ==
    \A i \in DOMAIN threads :
        \A j \in DOMAIN threads[i].comments :
            LET comment == threads[i].comments[j]
            IN  /\ comment.role \in {"User", "Assistant"}
                /\ comment.role = "Assistant" =>
                      /\ comment.severity # None
                      /\ comment.severity[1] \in Severities
                /\ comment.role = "User" =>
                      /\ comment.severity = None
                      /\ comment.suggested_code = None

\* a thread with two questions and two replies of a model, one with no
\* finding and no suggested code and one with suggested code
C30_Witness ==
    \E i \in DOMAIN threads :
        LET comments == threads[i].comments
        IN  /\ Cardinality(Replies(comments)) = 2
            /\ \E j \in Replies(comments) :
                  /\ comments[j].severity = Some("Info")
                  /\ comments[j].suggested_code = None
            /\ \E j \in Replies(comments) : comments[j].suggested_code # None

====
